---- MODULE Spec2Model ----
(***************************************************************************)
(* Smart PDF backend (Dattatrey13/smart_pdf): the primary FastAPI service  *)
(* (backend/app.py), its AI provider client (backend/llm_client.py) and    *)
(* the PDF and chunking utilities (backend/pdf_utils.py).                  *)
(*                                                                         *)
(* Python strings are modelled as sequences of one-character strings, so   *)
(* that lower(), strip(), split(), join(), endswith() and the substring    *)
(* test are computed, not assumed.  Long fixed literals of the source (the *)
(* prompt texts) stand in the sequence as one element each.                *)
(***************************************************************************)
EXTENDS Integers, Sequences, FiniteSets, TLC

VARIABLES
    DOC_STORE,        \* app.py:45   doc_id -> [chunks, embeddings]
    response_cache,   \* llm_client.py:32  cache_key -> text
    task,             \* one record per request task: position, locals, response
    issued,           \* number of uuid4() identifiers drawn so far
    started,          \* number of requests accepted so far
    backoffs,         \* number of backoff sleeps so far
    hist,             \* history: the doc_ids returned by /upload, and per
                      \* document the result of its last completed /summary
    ct,               \* chunk_text applied to an input (SpecChunk only)
    topk,             \* top_k_chunks applied to an input (SpecTopK only)
    split,            \* main.py split_text applied to an input (SpecSplit only)
    alt               \* main.py: the alternate service (SpecAlt only)

vars == <<DOC_STORE, response_cache, task, issued, started, backoffs, hist, ct, topk, split, alt>>

(***************************************************************************)
(* Bounds of the model.                                                    *)
(***************************************************************************)
NumTasks    == 2     \* request tasks alive at the same time
MaxRequests == 3     \* requests accepted in one behaviour
MaxBackoffs == 1     \* backoff sleeps in one behaviour of Spec and SpecUpload
ClientMaxBackoffs == 3   \* backoff sleeps in one behaviour of SpecEmbed, SpecGenerate
MaxTexts    == 2     \* texts in one embed call of SpecEmbed
MaxTextLen  == 5     \* characters of an input text of SpecChunk
MaxWords    == 3     \* largest max_tokens tried in SpecChunk
HashMod     == 61    \* size of the modelled hash space
MaxChunks   == 3     \* chunks of a document of SpecTopK
MaxSplitLen == 40    \* SpecSplit tries every text length up to this one

(***************************************************************************)
(* Program constants.                                                      *)
(***************************************************************************)
DefaultMaxTokens == 400   \* pdf_utils.py:20 and app.py:69
ZeroVectorLen    == 768   \* llm_client.py:70
EmbedMaxRetries  == 3     \* llm_client.py:34 (default used by embed)
EmbedInitialDelay == 1    \* llm_client.py:34 (default used by embed)
GenMaxRetries    == 4     \* llm_client.py:89
GenInitialDelay  == 2     \* llm_client.py:89
TopK             == 5     \* app.py:126, app.py:211
SummaryMaxChunks == 10    \* app.py:166
SplitChunkSize    == 1000 \* main.py:17
SplitChunkOverlap == 200  \* main.py:17

(***************************************************************************)
(* Strings.                                                                *)
(***************************************************************************)
Range(s) == {s[i] : i \in 1..Len(s)}

Min2(a, b) == IF a <= b THEN a ELSE b

Whitespace == {" ", "\n", "\t"}

UpperLetters == <<"A","B","C","D","E","F","G","H","I","J","K","L","M",
                  "N","O","P","Q","R","S","T","U","V","W","X","Y","Z">>
LowerLetters == <<"a","b","c","d","e","f","g","h","i","j","k","l","m",
                  "n","o","p","q","r","s","t","u","v","w","x","y","z">>

\* str.lower() on one character
LowerChar(c) ==
    IF c \in Range(UpperLetters)
    THEN LowerLetters[CHOOSE i \in 1..Len(UpperLetters) : UpperLetters[i] = c]
    ELSE c

\* str.lower()
Lower(s) == [i \in 1..Len(s) |-> LowerChar(s[i])]

\* str.endswith(suffix)
EndsWith(s, suffix) ==
    /\ Len(s) >= Len(suffix)
    /\ SubSeq(s, Len(s) - Len(suffix) + 1, Len(s)) = suffix

\* the substring test: sub in s
Contains(s, sub) ==
    \E i \in 1..(Len(s) - Len(sub) + 1) : SubSeq(s, i, i + Len(sub) - 1) = sub

\* str.strip(): leading and trailing whitespace removed
Strip(s) ==
    LET keep == {i \in 1..Len(s) : s[i] \notin Whitespace}
    IN  IF keep = {} THEN <<>>
        ELSE SubSeq(s, CHOOSE i \in keep : \A j \in keep : i <= j,
                       CHOOSE i \in keep : \A j \in keep : i >= j)

\* sep.join(parts[lo..hi]), by halves
RECURSIVE JoinRange(_, _, _, _)
JoinRange(parts, sep, lo, hi) ==
    IF lo > hi THEN <<>>
    ELSE IF lo = hi THEN parts[lo]
    ELSE LET mid == (lo + hi) \div 2
         IN  JoinRange(parts, sep, lo, mid) \o sep \o JoinRange(parts, sep, mid + 1, hi)

\* sep.join(parts)
Join(parts, sep) == JoinRange(parts, sep, 1, Len(parts))

\* the words of s[lo..hi]: maximal runs of non-whitespace, in order, by halves
RECURSIVE SplitRange(_, _, _)
SplitRange(s, lo, hi) ==
    IF lo > hi THEN <<>>
    ELSE IF lo = hi THEN (IF s[lo] \in Whitespace THEN <<>> ELSE <<(<<s[lo]>>)>>)
    ELSE LET mid == (lo + hi) \div 2
             L == SplitRange(s, lo, mid)
             R == SplitRange(s, mid + 1, hi)
         IN  IF s[mid] \notin Whitespace /\ s[mid + 1] \notin Whitespace
             THEN SubSeq(L, 1, Len(L) - 1) \o <<L[Len(L)] \o R[1]>> \o Tail(R)
             ELSE L \o R

\* str.split() with no argument
Split(s) == SplitRange(s, 1, Len(s))

(***************************************************************************)
(* pdf_utils.py                                                            *)
(***************************************************************************)
\* A PDF as PyPDF2 sees it: PdfReader(...) raises on an unreadable file; on a
\* readable one each page's extract_text() returns text, returns None or raises
TextPage(text) == [kind |-> "text", text |-> text]
PageNone       == [kind |-> "none", text |-> <<>>]
PageRaises     == [kind |-> "raises", text |-> <<>>]

\* `page.extract_text() or ""`, and "" when it raises
PageText(page) == IF page.kind = "text" THEN page.text ELSE <<>>

\* extract_text_from_pdf on a readable file: the pages' texts joined with "\n"
extract_text_from_pdf(pages) ==
    Join([i \in 1..Len(pages) |-> PageText(pages[i])], <<"\n">>)

\* the number of words `current` holds when `len(current) >= max_tokens` first
\* holds (a word is appended before the test)
FullChunkLen(max_tokens) == IF max_tokens > 1 THEN max_tokens ELSE 1

\* a variant that loses the last word of each chunk
EmitChunkDropLast(current) == Join(SubSeq(current, 1, Len(current) - 1), <<" ">>)

\* the chunk emitted from `current`
EmitChunk(current) == Join(current, <<" ">>)

\* the loop of chunk_text, one emitted chunk per level
RECURSIVE ChunkLoop(_, _, _)
ChunkLoop(words, max_tokens, chunks) ==
    IF words = <<>> THEN chunks
    ELSE LET take == Min2(FullChunkLen(max_tokens), Len(words))
             current == SubSeq(words, 1, take)
         IN  ChunkLoop(SubSeq(words, take + 1, Len(words)), max_tokens,
                       Append(chunks, EmitChunk(current)))

chunk_text(text, max_tokens) == ChunkLoop(Split(text), max_tokens, <<>>)

(***************************************************************************)
(* pdf_utils.py: similarity and retrieval.  An embedding vector is kept as *)
(* its length and its two leading coordinates; the others are zero.        *)
(***************************************************************************)
Vector(x, y) == [len |-> ZeroVectorLen, head |-> <<x, y>>]

Dot(a, b) == a.head[1] * b.head[1] + a.head[2] * b.head[2]

\* np.linalg.norm, for the vectors of the model (their norms are integers)
Norm(v) == CHOOSE n \in 0..Dot(v, v) : n * n = Dot(v, v)

\* one entry of cosine_similarity_matrix, as a fraction num/den with den > 0;
\* a zero vector divided by (0 + 1e-8) stays zero
CosineSimilarity(a, b) ==
    IF Norm(a) * Norm(b) = 0 THEN [num |-> 0, den |-> 1]
    ELSE [num |-> Dot(a, b), den |-> Norm(a) * Norm(b)]

ScoreLess(x, y) == x.num * y.den < y.num * x.den

IndexOrders(n) ==
    {p \in [1..n -> 1..n] : \A i, j \in 1..n : i # j => p[i] # p[j]}

\* a variant that sorts sims instead of -sims
ArgsortAscending(sims) ==
    {p \in IndexOrders(Len(sims)) :
        \A i \in 1..(Len(sims) - 1) : ~ScoreLess(sims[p[i + 1]], sims[p[i]])}

\* np.argsort(-sims): the default sort is not stable, so every order of the
\* indices by non-increasing score is a possible result
ArgsortDescending(sims) ==
    {p \in IndexOrders(Len(sims)) :
        \A i \in 1..(Len(sims) - 1) : ~ScoreLess(sims[p[i]], sims[p[i + 1]])}

\* top_k_chunks: the possible results
top_k_chunks(query_emb, doc_embs, chunks, k) ==
    LET sims == [i \in 1..Len(doc_embs) |-> CosineSimilarity(query_emb, doc_embs[i])]
    IN  {[i \in 1..Min2(k, Len(sims)) |-> [text |-> chunks[p[i]], score |-> sims[p[i]]]] :
            p \in ArgsortDescending(sims)}

(***************************************************************************)
(* llm_client.py                                                           *)
(***************************************************************************)
\* the rate-limit test of _retry_with_backoff
IsRateLimit(error_msg) ==
    \/ Contains(error_msg, <<"4","2","9">>)
    \/ Contains(Lower(error_msg), <<"q","u","o","t","a">>)
    \/ Contains(Lower(error_msg), <<"r","a","t","e"," ","l","i","m","i","t">>)

\* _retry_with_backoff after func() raised error_msg on attempt `attempt`
AfterFailure(error_msg, attempt, max_retries, initial_delay) ==
    IF IsRateLimit(error_msg) /\ attempt < max_retries - 1
    THEN [do |-> "sleep", delay |-> initial_delay * (2 ^ attempt)]
    ELSE [do |-> "raise", delay |-> 0]

\* a variant of embed that calls the provider directly, without the retry
EmbedAfterFailureNoRetry(error_msg, attempt) == [do |-> "raise", delay |-> 0]

\* embed wraps each text's call in _retry_with_backoff with the defaults
EmbedAfterFailure(error_msg, attempt) ==
    AfterFailure(error_msg, attempt, EmbedMaxRetries, EmbedInitialDelay)

\* a variant of generate that leaves the retry parameters at their defaults
GenerateAfterFailureDefaults(error_msg, attempt) ==
    AfterFailure(error_msg, attempt, EmbedMaxRetries, EmbedInitialDelay)

\* generate wraps its call with max_retries=4, initial_delay=2.0
GenerateAfterFailure(error_msg, attempt) ==
    AfterFailure(error_msg, attempt, GenMaxRetries, GenInitialDelay)

\* [0.0] * 768
ZeroVector == Vector(0, 0)

\* variants of the fallback: nothing appended, a zero vector of length 1
EmbedFallbackSkip(embeddings) == embeddings

EmbedFallbackShort(embeddings) == Append(embeddings, [ZeroVector EXCEPT !.len = 1])

\* what embed appends when a text's call raised
EmbedFallback(embeddings) == Append(embeddings, ZeroVector)

\* the characters and literals a prompt is made of, for the hash
Alphabet == <<"\n", "\t", " ", "?", "a", "h", "i", "o", "q", "w", "y",
              "ask-system", "Context:\n", "\n\nQuestion: ", "\n\nAnswer in detail:",
              "summary-system", "PDF Content:\n", "\n\nWrite a high-level summary:">>

Ord == [c \in Range(Alphabet) |-> CHOOSE i \in 1..Len(Alphabet) : Alphabet[i] = c]

\* hash() of a string: a checksum into a bounded space, by halves
RECURSIVE HashRange(_, _, _)
HashRange(s, lo, hi) ==
    IF lo > hi THEN 0
    ELSE IF lo = hi THEN Ord[s[lo]] % HashMod
    ELSE LET mid == (lo + hi) \div 2
         IN  (HashRange(s, lo, mid) + HashRange(s, mid + 1, hi)) % HashMod

Hash(s) == HashRange(s, 1, Len(s))

\* cache_key = hash(system_prompt + user_prompt)
CacheKey(system_prompt, user_prompt) == Hash(system_prompt \o user_prompt)

\* response.text if response.text else "No response generated"
GeneratedText(text) == IF text = <<>> THEN <<"No response generated">> ELSE text

\* a variant without the "Error: " prefix
ErrorResponseBare(error_msg) == error_msg

\* f"Error: {str(e)}"
ErrorResponse(error_msg) == <<"Error: ">> \o error_msg

\* self.response_cache[cache_key] = value
CachePut(cache, cache_key, value) ==
    [k \in DOMAIN cache \cup {cache_key} |-> IF k = cache_key THEN value ELSE cache[k]]

(***************************************************************************)
(* The provider: what one call may answer.                                 *)
(***************************************************************************)
Msg429       == <<"4","2","9">>
MsgQuota     == <<"Q","u","o","t","a">>
MsgRateLimit == <<"R","A","T","E"," ","L","I","M","I","T">>
MsgOther     == <<"r","a","t","e","-","l","i","m","i","t">>

ErrorMsgs == {Msg429, MsgQuota, MsgRateLimit, MsgOther}

\* the failures the provider shows the service in Spec
ServiceErrorMsgs == {MsgQuota, MsgOther}

Returned(value) == [ok |-> TRUE, value |-> value, msg |-> <<>>]

EmbedOutcomes(msgs) ==
    {Returned(v) : v \in {Vector(3, 4)}}
    \cup {[ok |-> FALSE, value |-> ZeroVector, msg |-> m] : m \in msgs}

GenOutcomes(msgs) ==
    {Returned(x) : x \in {<<>>, <<" ", "o", "\n">>}}
    \cup {[ok |-> FALSE, value |-> <<>>, msg |-> m] : m \in msgs}

\* the part of an outcome a task remembers of its last provider call
NoOutcome == [ok |-> TRUE, msg |-> <<>>]

Seen(outcome) == [ok |-> outcome.ok, msg |-> outcome.msg]

(***************************************************************************)
(* SpecChunk: chunk_text applied to bounded inputs.                        *)
(***************************************************************************)
TextChars == {"a", " ", "\n"}

\* all texts of at most n characters
RECURSIVE TextsUpTo(_)
TextsUpTo(n) ==
    IF n = 0 THEN {<<>>}
    ELSE LET shorter == TextsUpTo(n - 1)
         IN  shorter \cup {Append(t, c) : t \in {u \in shorter : Len(u) = n - 1}, c \in TextChars}

\* n words "w" separated by single spaces
WordsText(n) == [i \in 1..(2 * n - 1) |-> IF i % 2 = 1 THEN "w" ELSE " "]

ChunkInputs ==
    {[text |-> t, max_tokens |-> n] : t \in TextsUpTo(MaxTextLen), n \in 0..MaxWords}
    \cup {[text |-> WordsText(2 * DefaultMaxTokens + 50), max_tokens |-> DefaultMaxTokens]}

NoHistory == [returned |-> {}, last_summary |-> <<>>]

TopkIdle == [pc |-> "off", query_emb |-> Vector(0, 0), doc_embs |-> <<>>, chunks |-> <<>>,
             k |-> 0, result |-> <<>>]

SplitIdle == [pc |-> "off", text |-> <<>>, start |-> 0, chunks |-> <<>>]

AltIdle == [tasks |-> <<>>, files |-> {}, made |-> 0, store |-> <<>>, started |-> 0]

CtIdle == [pc |-> "off", text |-> <<>>, max_tokens |-> 0, chunks |-> <<>>]

InitChunk ==
    /\ \E inp \in ChunkInputs :
          ct = [pc |-> "input", text |-> inp.text, max_tokens |-> inp.max_tokens,
                chunks |-> <<>>]
    /\ DOC_STORE = <<>>
    /\ response_cache = <<>>
    /\ task = <<>>
    /\ issued = 0
    /\ started = 0
    /\ backoffs = 0
    /\ hist = NoHistory
    /\ topk = TopkIdle
    /\ split = SplitIdle
    /\ alt = AltIdle

CallChunkText ==
    /\ ct.pc = "input"
    /\ ct' = [ct EXCEPT !.pc = "returned",
                        !.chunks = chunk_text(ct.text, ct.max_tokens)]
    /\ UNCHANGED <<DOC_STORE, response_cache, task, issued, started, backoffs, hist,
                   topk, split, alt>>

NextChunk == CallChunkText

SpecChunk == InitChunk /\ [][NextChunk]_vars

(***************************************************************************)
(* main.py: split_text.  Python offsets count from 0.                      *)
(***************************************************************************)
\* a variant that has each window end one character early
WindowShort(text, start, chunk_size) ==
    SubSeq(text, start + 1, Min2(start + chunk_size - 1, Len(text)))

\* text[start:end] with end = start + chunk_size
Window(text, start, chunk_size) ==
    SubSeq(text, start + 1, Min2(start + chunk_size, Len(text)))

\* the loop of split_text from offset `start`, one window per level
RECURSIVE SplitLoop(_, _, _, _, _)
SplitLoop(text, start, chunk_size, chunk_overlap, chunks) ==
    IF start < Len(text)
    THEN SplitLoop(text, start + chunk_size - chunk_overlap, chunk_size, chunk_overlap,
                   Append(chunks, Window(text, start, chunk_size)))
    ELSE chunks

split_text(text, chunk_size, chunk_overlap) ==
    SplitLoop(text, 0, chunk_size, chunk_overlap, <<>>)

(***************************************************************************)
(* SpecSplit: split_text with its default sizes, one loop iteration per    *)
(* step.  The characters of a text differ with their position.             *)
(***************************************************************************)
SplitText(n) == [i \in 1..n |-> LowerLetters[((i - 1) % Len(LowerLetters)) + 1]]

\* the lengths around the window size, the stride and their multiples
SplitLengths ==
    LET stride == SplitChunkSize - SplitChunkOverlap
    IN  (0..MaxSplitLen)
        \cup {stride - 1, stride, stride + 1, SplitChunkSize - 1, SplitChunkSize,
              SplitChunkSize + 1, 2 * stride, 2 * stride + 1, stride + SplitChunkSize,
              stride + SplitChunkSize + 1, 2 * SplitChunkSize + 1}

InitSplit ==
    /\ \E n \in SplitLengths :
          split = [pc |-> "loop", text |-> SplitText(n), start |-> 0, chunks |-> <<>>]
    /\ DOC_STORE = <<>>
    /\ response_cache = <<>>
    /\ task = <<>>
    /\ issued = 0
    /\ started = 0
    /\ backoffs = 0
    /\ hist = NoHistory
    /\ ct = CtIdle
    /\ topk = TopkIdle
    /\ alt = AltIdle

\* one iteration of `while start < len(text)`
SplitStep ==
    /\ split.pc = "loop"
    /\ split.start < Len(split.text)
    /\ split' = [split EXCEPT
                    !.chunks = Append(@, Window(split.text, split.start, SplitChunkSize)),
                    !.start = @ + SplitChunkSize - SplitChunkOverlap]
    /\ UNCHANGED <<DOC_STORE, response_cache, task, issued, started, backoffs, hist,
                   ct, topk, alt>>

\* the loop ends: return chunks
SplitReturn ==
    /\ split.pc = "loop"
    /\ ~(split.start < Len(split.text))
    /\ split' = [split EXCEPT !.pc = "returned"]
    /\ UNCHANGED <<DOC_STORE, response_cache, task, issued, started, backoffs, hist,
                   ct, topk, alt>>

NextSplit == SplitStep \/ SplitReturn

\* a call that has started runs on: the function does not wait for anything
SpecSplit == InitSplit /\ [][NextSplit]_vars /\ WF_vars(NextSplit)

(***************************************************************************)
(* SpecTopK: top_k_chunks applied to a query, a document of 1 to MaxChunks *)
(* chunks and a k.  A stored document has at least one chunk.              *)
(***************************************************************************)
DocVectors == {Vector(3, 4), Vector(4, 3), Vector(0, 0), Vector(-3, -4)}

QueryVectors == {Vector(3, 4), Vector(0, 0)}

\* the i-th chunk of a document: i words, so that chunks differ
ChunkOf(i) == [j \in 1..(2 * i - 1) |-> IF j % 2 = 1 THEN "w" ELSE " "]

TopkInputs ==
    UNION {{[query_emb |-> q, doc_embs |-> embs, k |-> k,
             chunks |-> [i \in 1..n |-> ChunkOf(i)]] :
                q \in QueryVectors, embs \in [1..n -> DocVectors], k \in 0..TopK} :
           n \in 1..MaxChunks}

InitTopK ==
    /\ \E inp \in TopkInputs :
          topk = [pc |-> "input", query_emb |-> inp.query_emb, doc_embs |-> inp.doc_embs,
                  chunks |-> inp.chunks, k |-> inp.k, result |-> <<>>]
    /\ DOC_STORE = <<>>
    /\ response_cache = <<>>
    /\ task = <<>>
    /\ issued = 0
    /\ started = 0
    /\ backoffs = 0
    /\ hist = NoHistory
    /\ ct = CtIdle
    /\ split = SplitIdle
    /\ alt = AltIdle

CallTopK ==
    /\ topk.pc = "input"
    /\ \E result \in top_k_chunks(topk.query_emb, topk.doc_embs, topk.chunks, topk.k) :
          topk' = [topk EXCEPT !.pc = "returned", !.result = result]
    /\ UNCHANGED <<DOC_STORE, response_cache, task, issued, started, backoffs, hist,
                   ct, split, alt>>

NextTopK == CallTopK

SpecTopK == InitTopK /\ [][NextTopK]_vars

(***************************************************************************)
(* app.py: the primary service.  Each request is a task on one event loop: *)
(* a task runs until it awaits something that suspends it (file.read() in  *)
(* upload_pdf, asyncio.sleep in _retry_with_backoff) or returns, and only  *)
(* then may another task run.  The provider calls themselves block.        *)
(***************************************************************************)
Tasks == 1..NumTasks

\* positions at which a task does not hold the event loop
YieldPcs == {"idle", "u_read", "embed_sleep", "g_sleep"}

CanRun(t) == \A u \in Tasks \ {t} : task[u].pc \in YieldPcs

\* a request is accepted by the first free task (the tasks are interchangeable)
CanStart(t) ==
    /\ task[t].pc = "idle"
    /\ CanRun(t)
    /\ started < MaxRequests
    /\ \A u \in Tasks : u < t => task[u].pc # "idle"

Response(status) ==
    [status |-> status, text |-> <<>>, doc_id |-> 0, num_chunks |-> 0, hits |-> <<>>,
     vectors |-> <<>>]

NoResponse == Response(0)

Request(kind, file, doc_id, text) ==
    [kind |-> kind, file |-> file, doc_id |-> doc_id, text |-> text]

File(filename, readable, pages) ==
    [filename |-> filename, readable |-> readable, pages |-> pages]

NoFile == File(<<>>, FALSE, <<>>)

NoRequest == Request("none", NoFile, 0, <<>>)

\* a task when its handler is entered
FreshTask(req) ==
    [pc |-> "idle", req |-> req, resp |-> NoResponse,
     chunks |-> <<>>, emb_array |-> <<>>,
     texts |-> <<>>, idx |-> 0, embeddings |-> <<>>,
     attempt |-> 0, ecalls |-> 0, gcalls |-> 0, sleeps |-> <<>>, last |-> NoOutcome,
     cache_key |-> -1, result |-> <<>>]

\* the handler returns or raises: the request is answered, its locals are gone
Respond(tk, resp) == [FreshTask(tk.req) EXCEPT !.pc = "done", !.resp = resp]

\* a variant that looks for "pdf" anywhere in the name
IsPdfNameSubstring(filename) == Contains(Lower(filename), <<"p","d","f">>)

\* file.filename.lower().endswith(".pdf")
IsPdfName(filename) == EndsWith(Lower(filename), <<".","p","d","f">>)

\* not text.strip()
IsBlank(text) == Strip(text) = <<>>

\* a variant that draws the same identifier every time
NewDocIdFixed(n) == 1

\* str(uuid.uuid4()): an identifier never drawn before
NewDocId(n) == n + 1

\* DOC_STORE[doc_id] = {"chunks": chunks, "embeddings": emb_array}
StorePut(store, doc_id, chunks, emb_array) ==
    [d \in DOMAIN store \cup {doc_id} |->
        IF d = doc_id THEN [chunks |-> chunks, embeddings |-> emb_array] ELSE store[d]]

\* np.array(embeddings, dtype="float32") needs rows of one length
Homogeneous(embeddings) ==
    \A i, j \in 1..Len(embeddings) : embeddings[i].len = embeddings[j].len

\* query_emb[None, :] @ doc_embs.T needs rows as long as the query
ShapesAgree(query_emb, doc_embs) ==
    \A i \in 1..Len(doc_embs) : doc_embs[i].len = query_emb.len

\* llm.embed(texts) is entered
BeginEmbed(tk, texts) ==
    [tk EXCEPT !.pc = IF texts = <<>> THEN "embedded" ELSE "embed",
               !.texts = texts, !.idx = 1, !.embeddings = <<>>,
               !.attempt = 0, !.ecalls = 0, !.sleeps = <<>>, !.last = NoOutcome]

\* generate returns `result` to the handler
GenerateReturns(tk, result) == [tk EXCEPT !.pc = "g_got", !.result = result]

\* a variant of generate that does not look into the cache
GenerateNoCacheCheck(tk, cache, system_prompt, user_prompt) ==
    [tk EXCEPT !.pc = "g_call", !.cache_key = CacheKey(system_prompt, user_prompt),
               !.attempt = 0, !.gcalls = 0, !.sleeps = <<>>, !.last = NoOutcome]

\* llm.generate(system_prompt, user_prompt) up to its first provider call
Generate(tk, cache, system_prompt, user_prompt) ==
    LET cache_key == CacheKey(system_prompt, user_prompt)
        entered == [tk EXCEPT !.cache_key = cache_key, !.attempt = 0, !.gcalls = 0,
                              !.sleeps = <<>>, !.last = NoOutcome]
    IN  IF cache_key \in DOMAIN cache
        THEN GenerateReturns(entered, cache[cache_key])
        ELSE [entered EXCEPT !.pc = "g_call"]

AskSystemPrompt == <<"ask-system">>

AskUserPrompt(context, question) ==
    <<"Context:\n">> \o context \o <<"\n\nQuestion: ">> \o question
        \o <<"\n\nAnswer in detail:">>

SummarySystemPrompt == <<"summary-system">>

SummaryUserPrompt(context) ==
    <<"PDF Content:\n">> \o context \o <<"\n\nWrite a high-level summary:">>

\* "\n\n".join(chunks[:max_chunks])
SummaryContext(chunks) ==
    Join(SubSeq(chunks, 1, Min2(Len(chunks), SummaryMaxChunks)), <<"\n", "\n">>)

\* "\n\n".join([c for c, _ in top_chunks])
AskContext(top_chunks) ==
    Join([i \in 1..Len(top_chunks) |-> top_chunks[i].text], <<"\n", "\n">>)

\* body.doc_id not in DOC_STORE
UnknownDoc(store, doc_id) == doc_id \notin DOMAIN store

\* a variant with the status of a bad request
NotFoundAsBadRequest == Response(400)

\* HTTPException(status_code=404, detail="Unknown doc_id")
NotFound == Response(404)

(***************************************************************************)
(* The requests of the model.                                              *)
(***************************************************************************)
NameTxt   == <<"a",".","p","d","f",".","t","x","t">>
NamePdf   == <<"a",".","p","d","f">>
NameUpper == <<"A",".","P","D","F">>

SmallText == <<"h","i"," ","y","o">>

Files ==
    { File(NameTxt, TRUE, <<TextPage(SmallText)>>),
      File(NamePdf, FALSE, <<>>),
      File(NamePdf, TRUE, <<>>),
      File(NamePdf, TRUE, <<PageRaises, TextPage(<<" ", "\t">>), PageNone>>),
      File(NameUpper, TRUE, <<TextPage(SmallText), PageRaises, TextPage(<<"h","i">>)>>) }

\* SpecUpload also uploads a document of two chunks: 400 words and one more
UploadFiles ==
    { File(NameTxt, TRUE, <<TextPage(SmallText)>>),
      File(NamePdf, TRUE, <<PageRaises, TextPage(<<" ", "\t">>), PageNone>>),
      File(NamePdf, TRUE, <<TextPage(WordsText(DefaultMaxTokens)), PageNone,
                            TextPage(<<"h","i">>)>>) }

Questions == {<<"q", "?">>}

\* the identifiers clients ask about: those an upload may have returned before
\* the last request, each unknown until it is issued
DocIds == 1..(MaxRequests - 1)

(***************************************************************************)
(* upload_pdf                                                              *)
(***************************************************************************)
StartUpload(t, file) ==
    /\ CanStart(t)
    /\ started' = started + 1
    /\ LET tk == FreshTask(Request("upload", file, 0, <<>>))
       IN  task' = [task EXCEPT ![t] =
                IF ~IsPdfName(file.filename)
                THEN Respond(tk, Response(400))
                ELSE [tk EXCEPT !.pc = "u_read"]]
    /\ UNCHANGED <<DOC_STORE, response_cache, issued, backoffs, hist, ct, topk, split, alt>>

\* from `content = await file.read()` to the first embedding call
UploadRead(t) ==
    /\ task[t].pc = "u_read"
    /\ CanRun(t)
    /\ LET tk == task[t]
           file == tk.req.file
           text == extract_text_from_pdf(file.pages)
           chunks == chunk_text(text, DefaultMaxTokens)
       IN  task' = [task EXCEPT ![t] =
                IF ~file.readable THEN Respond(tk, Response(500))
                ELSE IF IsBlank(text) THEN Respond(tk, Response(400))
                ELSE IF chunks = <<>> THEN Respond(tk, Response(400))
                ELSE BeginEmbed([tk EXCEPT !.chunks = chunks], chunks)]
    /\ UNCHANGED <<DOC_STORE, response_cache, issued, started, backoffs, hist, ct, topk, split, alt>>

\* from np.array(embeddings) to the response
UploadStore(t) ==
    /\ task[t].pc = "embedded"
    /\ task[t].req.kind = "upload"
    /\ CanRun(t)
    /\ LET tk == task[t]
           doc_id == NewDocId(issued)
       IN  IF ~Homogeneous(tk.embeddings)
           THEN /\ task' = [task EXCEPT ![t] = Respond(tk, Response(500))]
                /\ UNCHANGED <<DOC_STORE, issued, hist>>
           ELSE /\ issued' = issued + 1
                /\ hist' = [hist EXCEPT !.returned = @ \cup {doc_id}]
                /\ DOC_STORE' = StorePut(DOC_STORE, doc_id, tk.chunks, tk.embeddings)
                /\ task' = [task EXCEPT ![t] =
                       Respond(tk,
                               [Response(200) EXCEPT !.doc_id = doc_id,
                                                     !.num_chunks = Len(tk.chunks)])]
    /\ UNCHANGED <<response_cache, started, backoffs, ct, topk, split, alt>>

(***************************************************************************)
(* LLMClient.embed: the loop over texts, one provider call at a time       *)
(***************************************************************************)
\* embed goes on to the next text with `embeddings`
NextText(tk, embeddings) ==
    [tk EXCEPT !.embeddings = embeddings, !.idx = @ + 1, !.attempt = 0, !.last = NoOutcome,
               !.pc = IF tk.idx + 1 > Len(tk.texts) THEN "embedded" ELSE "embed"]

\* `return await func()` in _retry_with_backoff, func being embed_func
EmbedCall(t, outcome, max_backoffs) ==
    /\ task[t].pc \in {"embed", "embed_sleep"}
    /\ CanRun(t)
    /\ LET tk == task[t]
           \* a new _retry_with_backoff call starts with attempt 0
           called == [tk EXCEPT !.ecalls = IF tk.attempt = 0 THEN 1 ELSE @ + 1,
                                !.sleeps = IF tk.attempt = 0 THEN <<>> ELSE @]
           sleeps == /\ ~outcome.ok
                     /\ EmbedAfterFailure(outcome.msg, tk.attempt).do = "sleep"
       IN  /\ sleeps => backoffs < max_backoffs
           /\ backoffs' = IF sleeps THEN backoffs + 1 ELSE backoffs
           /\ task' = [task EXCEPT ![t] =
                IF outcome.ok
                THEN NextText(called, Append(tk.embeddings, outcome.value))
                ELSE [called EXCEPT !.pc = "embed_failed", !.last = Seen(outcome)]]
    /\ UNCHANGED <<DOC_STORE, response_cache, issued, started, hist, ct, topk, split, alt>>

\* the except clause of _retry_with_backoff, and embed's own when it re-raises
EmbedFailed(t) ==
    /\ task[t].pc = "embed_failed"
    /\ CanRun(t)
    /\ LET tk == task[t]
           decision == EmbedAfterFailure(tk.last.msg, tk.attempt)
       IN  task' = [task EXCEPT ![t] =
                IF decision.do = "sleep"
                THEN [tk EXCEPT !.pc = "embed_sleep", !.attempt = @ + 1,
                                !.sleeps = Append(@, decision.delay), !.last = NoOutcome]
                ELSE NextText(tk, EmbedFallback(tk.embeddings))]
    /\ UNCHANGED <<DOC_STORE, response_cache, issued, started, backoffs, hist, ct, topk, split, alt>>

(***************************************************************************)
(* ask_question                                                            *)
(***************************************************************************)
StartAsk(t, doc_id, question) ==
    /\ CanStart(t)
    /\ started' = started + 1
    /\ LET tk == FreshTask(Request("ask", NoFile, doc_id, question))
       IN  task' = [task EXCEPT ![t] =
                IF UnknownDoc(DOC_STORE, doc_id)
                THEN Respond(tk, NotFound)
                ELSE BeginEmbed([tk EXCEPT !.chunks = DOC_STORE[doc_id].chunks,
                                           !.emb_array = DOC_STORE[doc_id].embeddings],
                                <<question>>)]
    /\ UNCHANGED <<DOC_STORE, response_cache, issued, backoffs, hist, ct, topk, split, alt>>

\* from top_k_chunks to generate's cache check
AskAnswer(t) ==
    /\ task[t].pc = "embedded"
    /\ task[t].req.kind = "ask"
    /\ CanRun(t)
    /\ LET tk == task[t]
           q_emb == tk.embeddings[1]
       IN  IF ~ShapesAgree(q_emb, tk.emb_array)
           THEN task' = [task EXCEPT ![t] = Respond(tk, Response(500))]
           ELSE \E top_chunks \in top_k_chunks(q_emb, tk.emb_array, tk.chunks, TopK) :
                    task' = [task EXCEPT ![t] =
                        Generate(tk, response_cache, AskSystemPrompt,
                                 AskUserPrompt(AskContext(top_chunks), tk.req.text))]
    /\ UNCHANGED <<DOC_STORE, response_cache, issued, started, backoffs, hist, ct, topk, split, alt>>

(***************************************************************************)
(* summarize                                                               *)
(***************************************************************************)
StartSummary(t, doc_id) ==
    /\ CanStart(t)
    /\ started' = started + 1
    /\ LET tk == FreshTask(Request("summary", NoFile, doc_id, <<>>))
       IN  task' = [task EXCEPT ![t] =
                IF UnknownDoc(DOC_STORE, doc_id)
                THEN Respond(tk, NotFound)
                ELSE Generate([tk EXCEPT !.chunks = DOC_STORE[doc_id].chunks],
                              response_cache, SummarySystemPrompt,
                              SummaryUserPrompt(SummaryContext(DOC_STORE[doc_id].chunks)))]
    /\ UNCHANGED <<DOC_STORE, response_cache, issued, backoffs, hist, ct, topk, split, alt>>

(***************************************************************************)
(* search                                                                  *)
(***************************************************************************)
StartSearch(t, doc_id, query) ==
    /\ CanStart(t)
    /\ started' = started + 1
    /\ LET tk == FreshTask(Request("search", NoFile, doc_id, query))
       IN  task' = [task EXCEPT ![t] =
                IF UnknownDoc(DOC_STORE, doc_id)
                THEN Respond(tk, NotFound)
                ELSE BeginEmbed([tk EXCEPT !.chunks = DOC_STORE[doc_id].chunks,
                                           !.emb_array = DOC_STORE[doc_id].embeddings],
                                <<query>>)]
    /\ UNCHANGED <<DOC_STORE, response_cache, issued, backoffs, hist, ct, topk, split, alt>>

SearchHits(t) ==
    /\ task[t].pc = "embedded"
    /\ task[t].req.kind = "search"
    /\ CanRun(t)
    /\ LET tk == task[t]
           q_emb == tk.embeddings[1]
       IN  IF ~ShapesAgree(q_emb, tk.emb_array)
           THEN task' = [task EXCEPT ![t] = Respond(tk, Response(500))]
           ELSE \E top_chunks \in top_k_chunks(q_emb, tk.emb_array, tk.chunks, TopK) :
                    task' = [task EXCEPT ![t] =
                        Respond(tk, [Response(200) EXCEPT !.hits = top_chunks])]
    /\ UNCHANGED <<DOC_STORE, response_cache, issued, started, backoffs, hist, ct, topk, split, alt>>

(***************************************************************************)
(* LLMClient.generate: one provider call at a time                         *)
(***************************************************************************)
\* `return await func()` in _retry_with_backoff, func being generate_func;
\* on success generate caches the text and returns it
GenCall(t, outcome, max_backoffs) ==
    /\ task[t].pc \in {"g_call", "g_sleep"}
    /\ CanRun(t)
    /\ LET tk == task[t]
           called == [tk EXCEPT !.gcalls = @ + 1]
           sleeps == /\ ~outcome.ok
                     /\ GenerateAfterFailure(outcome.msg, tk.attempt).do = "sleep"
           result == GeneratedText(outcome.value)
       IN  /\ sleeps => backoffs < max_backoffs
           /\ backoffs' = IF sleeps THEN backoffs + 1 ELSE backoffs
           /\ IF outcome.ok
              THEN /\ response_cache' = CachePut(response_cache, tk.cache_key, result)
                   /\ task' = [task EXCEPT ![t] = GenerateReturns(called, result)]
              ELSE /\ task' = [task EXCEPT ![t] =
                          [called EXCEPT !.pc = "g_failed", !.last = Seen(outcome)]]
                   /\ UNCHANGED response_cache
    /\ UNCHANGED <<DOC_STORE, issued, started, hist, ct, topk, split, alt>>

\* the except clause of _retry_with_backoff, and generate's own when it re-raises
GenFailed(t) ==
    /\ task[t].pc = "g_failed"
    /\ CanRun(t)
    /\ LET tk == task[t]
           decision == GenerateAfterFailure(tk.last.msg, tk.attempt)
           error_response == ErrorResponse(tk.last.msg)
       IN  IF decision.do = "sleep"
           THEN /\ task' = [task EXCEPT ![t] =
                       [tk EXCEPT !.pc = "g_sleep", !.attempt = @ + 1,
                                  !.sleeps = Append(@, decision.delay),
                                  !.last = NoOutcome]]
                /\ UNCHANGED response_cache
           ELSE /\ response_cache' = CachePut(response_cache, tk.cache_key, error_response)
                /\ task' = [task EXCEPT ![t] =
                       GenerateReturns([tk EXCEPT !.last = NoOutcome], error_response)]
    /\ UNCHANGED <<DOC_STORE, issued, started, backoffs, hist, ct, topk, split, alt>>

\* the handler returns the trimmed text: AskResponse(answer=answer.strip()),
\* SummaryResponse(summary=summary.strip())
HandlerReturn(t) ==
    /\ task[t].pc = "g_got"
    /\ task[t].req.kind \in {"ask", "summary"}
    /\ CanRun(t)
    /\ task' = [task EXCEPT ![t] =
           Respond(task[t], [Response(200) EXCEPT !.text = Strip(task[t].result)])]
    /\ hist' = IF task[t].req.kind = "summary"
               THEN [hist EXCEPT !.last_summary =
                        [d \in DOMAIN @ \cup {task[t].req.doc_id} |->
                            IF d = task[t].req.doc_id THEN task[t].result ELSE @[d]]]
               ELSE hist
    /\ UNCHANGED <<DOC_STORE, response_cache, issued, started, backoffs, ct, topk, split, alt>>

\* the response is delivered and the task ends
Deliver(t) ==
    /\ task[t].pc = "done"
    /\ task' = [task EXCEPT ![t] = FreshTask(NoRequest)]
    /\ UNCHANGED <<DOC_STORE, response_cache, issued, started, backoffs, hist, ct, topk, split, alt>>

(***************************************************************************)
(* Spec: the primary service under any schedule of its requests.           *)
(***************************************************************************)
Init ==
    /\ DOC_STORE = <<>>
    /\ response_cache = <<>>
    /\ task = [t \in Tasks |-> FreshTask(NoRequest)]
    /\ issued = 0
    /\ started = 0
    /\ backoffs = 0
    /\ hist = NoHistory
    /\ topk = TopkIdle
    /\ split = SplitIdle
    /\ alt = AltIdle
    /\ ct = CtIdle

Next ==
    \E t \in Tasks :
        \/ \E file \in Files : StartUpload(t, file)
        \/ UploadRead(t)
        \/ UploadStore(t)
        \/ \E outcome \in EmbedOutcomes(ServiceErrorMsgs) : EmbedCall(t, outcome, MaxBackoffs)
        \/ EmbedFailed(t)
        \/ \E doc_id \in DocIds, question \in Questions : StartAsk(t, doc_id, question)
        \/ AskAnswer(t)
        \/ \E doc_id \in DocIds : StartSummary(t, doc_id)
        \/ \E doc_id \in DocIds, query \in Questions : StartSearch(t, doc_id, query)
        \/ SearchHits(t)
        \/ \E outcome \in GenOutcomes(ServiceErrorMsgs) : GenCall(t, outcome, MaxBackoffs)
        \/ GenFailed(t)
        \/ HandlerReturn(t)
        \/ Deliver(t)

Spec == Init /\ [][Next]_vars

(***************************************************************************)
(* SpecUpload: uploads only, among them a document of more than one chunk. *)
(***************************************************************************)
NextUpload ==
    \E t \in Tasks :
        \/ \E file \in UploadFiles : StartUpload(t, file)
        \/ UploadRead(t)
        \/ UploadStore(t)
        \/ \E outcome \in EmbedOutcomes(ServiceErrorMsgs) : EmbedCall(t, outcome, MaxBackoffs)
        \/ EmbedFailed(t)
        \/ Deliver(t)

SpecUpload == Init /\ [][NextUpload]_vars

(***************************************************************************)
(* SpecAsk: uploads of a document of two chunks, and questions about it.   *)
(***************************************************************************)
AskFiles ==
    { File(NamePdf, TRUE, <<TextPage(WordsText(DefaultMaxTokens)), PageNone,
                            TextPage(<<"h","i">>)>>) }

NextAsk ==
    \E t \in Tasks :
        \/ \E file \in AskFiles : StartUpload(t, file)
        \/ UploadRead(t)
        \/ UploadStore(t)
        \/ \E outcome \in EmbedOutcomes({MsgOther}) : EmbedCall(t, outcome, MaxBackoffs)
        \/ EmbedFailed(t)
        \/ \E doc_id \in DocIds, question \in Questions : StartAsk(t, doc_id, question)
        \/ AskAnswer(t)
        \/ \E outcome \in GenOutcomes({MsgOther}) : GenCall(t, outcome, MaxBackoffs)
        \/ GenFailed(t)
        \/ HandlerReturn(t)
        \/ Deliver(t)

SpecAsk == Init /\ [][NextAsk]_vars

(***************************************************************************)
(* main.py: the alternate service, POST /upload.  alt.files are the        *)
(* temporary files on disk, alt.store the chunks of the VectorStore.  A    *)
(* task may be suspended only at `await file.read()`.  Between the         *)
(* requests nothing else touches the temporary files.                      *)
(***************************************************************************)
AltYieldPcs == {"idle", "a_read"}

AltCanRun(t) == \A u \in Tasks \ {t} : alt.tasks[u].pc \in AltYieldPcs

\* temp_file: the file NamedTemporaryFile made (0: none); temp_file_path: the
\* local variable of that name (0: not in locals())
AltFresh == [pc |-> "idle", filename |-> <<>>, temp_file |-> 0, temp_file_path |-> 0,
             status |-> 0]

\* the finally clause: the files left on disk
AltFinally(files, tk) ==
    IF tk.temp_file_path # 0 /\ tk.temp_file_path \in files
    THEN files \ {tk.temp_file_path}
    ELSE files

\* the handler ends with `status`
AltRespond(tk, status) == [tk EXCEPT !.pc = "done", !.status = status]

\* what extract_text_from_pdf(temp_file_path) may do: pdf_utils.py reads
\* bytes and raises on a path; a reader of paths returns the text
AltExtractOutcomes ==
    {[ok |-> FALSE, text |-> <<>>]} \cup {[ok |-> TRUE, text |-> x] : x \in {<<>>, SmallText}}

\* the name check and NamedTemporaryFile(delete=False, suffix=".pdf");
\* `created` is whether the file could be made
AltStartUpload(t, filename, created) ==
    /\ alt.tasks[t].pc = "idle"
    /\ AltCanRun(t)
    /\ \A u \in Tasks : u < t => alt.tasks[u].pc # "idle"
    /\ alt.started < MaxRequests
    /\ LET tk == [AltFresh EXCEPT !.filename = filename]
           name == alt.made + 1
       IN  alt' =
             IF ~IsPdfName(filename)
             THEN [alt EXCEPT !.started = @ + 1, !.tasks[t] = AltRespond(tk, 400)]
             ELSE IF ~created
             THEN [alt EXCEPT !.started = @ + 1, !.tasks[t] = AltRespond(tk, 500),
                              !.files = AltFinally(@, tk)]
             ELSE [alt EXCEPT !.started = @ + 1, !.made = name, !.files = @ \cup {name},
                              !.tasks[t] = [tk EXCEPT !.pc = "a_read", !.temp_file = name]]
    /\ UNCHANGED <<DOC_STORE, response_cache, task, issued, started, backoffs, hist,
                   ct, topk, split>>

\* temp_file.write(await file.read()) and, if neither raised, the end of the
\* with block and temp_file_path = temp_file.name
AltWrite(t, written) ==
    /\ alt.tasks[t].pc = "a_read"
    /\ AltCanRun(t)
    /\ LET tk == alt.tasks[t]
       IN  alt' =
             IF ~written
             THEN [alt EXCEPT !.tasks[t] = AltRespond(tk, 500), !.files = AltFinally(@, tk)]
             ELSE [alt EXCEPT !.tasks[t] =
                      [tk EXCEPT !.pc = "a_written", !.temp_file_path = tk.temp_file]]
    /\ UNCHANGED <<DOC_STORE, response_cache, task, issued, started, backoffs, hist,
                   ct, topk, split>>

\* from extract_text_from_pdf to the end of the handler; `stored` is whether
\* store.add_text(chunks) went through
AltProcess(t, extracted, stored) ==
    /\ alt.tasks[t].pc = "a_written"
    /\ AltCanRun(t)
    /\ LET tk == alt.tasks[t]
           chunks == split_text(extracted.text, SplitChunkSize, SplitChunkOverlap)
       IN  alt' =
             IF ~extracted.ok
             THEN [alt EXCEPT !.tasks[t] = AltRespond(tk, 500), !.files = AltFinally(@, tk)]
             ELSE IF ~stored
             THEN [alt EXCEPT !.tasks[t] = AltRespond(tk, 500), !.files = AltFinally(@, tk),
                              !.store = <<>>]
             ELSE [alt EXCEPT !.tasks[t] = AltRespond(tk, 200), !.files = AltFinally(@, tk),
                              !.store = chunks]
    /\ UNCHANGED <<DOC_STORE, response_cache, task, issued, started, backoffs, hist,
                   ct, topk, split>>

\* the response is delivered and the task ends
AltDeliver(t) ==
    /\ alt.tasks[t].pc = "done"
    /\ alt' = [alt EXCEPT !.tasks[t] = AltFresh]
    /\ UNCHANGED <<DOC_STORE, response_cache, task, issued, started, backoffs, hist,
                   ct, topk, split>>

InitAlt ==
    /\ alt = [AltIdle EXCEPT !.tasks = [t \in Tasks |-> AltFresh]]
    /\ DOC_STORE = <<>>
    /\ response_cache = <<>>
    /\ task = <<>>
    /\ issued = 0
    /\ started = 0
    /\ backoffs = 0
    /\ hist = NoHistory
    /\ ct = CtIdle
    /\ topk = TopkIdle
    /\ split = SplitIdle

NextAlt ==
    \E t \in Tasks :
        \/ \E filename \in {NameTxt, NameUpper}, created \in BOOLEAN :
               AltStartUpload(t, filename, created)
        \/ \E written \in BOOLEAN : AltWrite(t, written)
        \/ \E extracted \in AltExtractOutcomes, stored \in BOOLEAN :
               AltProcess(t, extracted, stored)
        \/ AltDeliver(t)

SpecAlt == InitAlt /\ [][NextAlt]_vars

(***************************************************************************)
(* SpecEmbed, SpecGenerate: LLMClient alone, a method called by concurrent *)
(* tasks.                                                                  *)
(***************************************************************************)
ClientTexts == <<(<<"h","i">>), (<<"y","o">>), (<<"q","?">>)>>

\* the lists of texts handed to embed
ClientTextLists == {SubSeq(ClientTexts, 1, n) : n \in 0..MaxTexts}

\* the prompts handed to generate; the first two have the same hash
ClientPrompts ==
    { [system_prompt |-> <<"a">>, user_prompt |-> <<"h","i">>],
      [system_prompt |-> <<"a">>, user_prompt |-> <<"i","h">>],
      [system_prompt |-> <<"a">>, user_prompt |-> <<"q","?">>] }

\* await llm.embed(texts)
ClientEmbed(t, texts) ==
    /\ CanStart(t)
    /\ started' = started + 1
    /\ task' = [task EXCEPT ![t] =
           BeginEmbed(FreshTask(Request("embed", NoFile, 0, <<>>)), texts)]
    /\ UNCHANGED <<DOC_STORE, response_cache, issued, backoffs, hist, ct, topk, split, alt>>

\* embed returns its list
ClientEmbedReturn(t) ==
    /\ task[t].pc = "embedded"
    /\ task[t].req.kind = "embed"
    /\ CanRun(t)
    /\ task' = [task EXCEPT ![t] =
           Respond(task[t], [Response(200) EXCEPT !.vectors = task[t].embeddings])]
    /\ UNCHANGED <<DOC_STORE, response_cache, issued, started, backoffs, hist, ct, topk, split, alt>>

\* await llm.generate(system_prompt, user_prompt)
ClientGenerate(t, prompt) ==
    /\ CanStart(t)
    /\ started' = started + 1
    /\ task' = [task EXCEPT ![t] =
           Generate(FreshTask(Request("generate", NoFile, 0,
                                      prompt.system_prompt \o prompt.user_prompt)),
                    response_cache, prompt.system_prompt, prompt.user_prompt)]
    /\ UNCHANGED <<DOC_STORE, response_cache, issued, backoffs, hist, ct, topk, split, alt>>

\* generate returns its string
ClientGenerateReturn(t) ==
    /\ task[t].pc = "g_got"
    /\ task[t].req.kind = "generate"
    /\ CanRun(t)
    /\ task' = [task EXCEPT ![t] =
           Respond(task[t], [Response(200) EXCEPT !.text = task[t].result])]
    /\ UNCHANGED <<DOC_STORE, response_cache, issued, started, backoffs, hist, ct, topk, split, alt>>

\* SpecEmbed: embed alone
NextEmbed ==
    \E t \in Tasks :
        \/ \E texts \in ClientTextLists : ClientEmbed(t, texts)
        \/ \E outcome \in EmbedOutcomes(ErrorMsgs) : EmbedCall(t, outcome, ClientMaxBackoffs)
        \/ EmbedFailed(t)
        \/ ClientEmbedReturn(t)
        \/ Deliver(t)

SpecEmbed == Init /\ [][NextEmbed]_vars

\* SpecGenerate: generate alone
NextGenerate ==
    \E t \in Tasks :
        \/ \E prompt \in ClientPrompts : ClientGenerate(t, prompt)
        \/ \E outcome \in GenOutcomes(ErrorMsgs) : GenCall(t, outcome, ClientMaxBackoffs)
        \/ GenFailed(t)
        \/ ClientGenerateReturn(t)
        \/ Deliver(t)

SpecGenerate == Init /\ [][NextGenerate]_vars

(***************************************************************************)
(* Properties.                                                             *)
(***************************************************************************)
\* the step is one of task t
Acts(t) == task'[t] # task[t]

\* what the service rejects as InvalidInput: a name not ending in ".pdf"
\* whatever the case, or a readable file with blank text or no chunk
InvalidInput(file) ==
    \/ ~EndsWith(Lower(file.filename), <<".","p","d","f">>)
    \/ /\ file.readable
       /\ \/ Strip(extract_text_from_pdf(file.pages)) = <<>>
          \/ chunk_text(extract_text_from_pdf(file.pages), DefaultMaxTokens) = <<>>

\* C1: a POST /upload of an InvalidInput file goes no further than the read
\* of the file, is answered with status 400, and none of its steps changes
\* the document store; no step that answers an upload with 400 changes it.
C1_RejectedUploadKeepsStore ==
    [][\A t \in Tasks :
          (Acts(t) /\ task'[t].req.kind = "upload") =>
              /\ InvalidInput(task'[t].req.file) =>
                    /\ DOC_STORE' = DOC_STORE
                    /\ task'[t].pc \in {"u_read", "done"}
                    /\ task'[t].pc = "done" => task'[t].resp.status = 400
              /\ (task'[t].pc = "done" /\ task'[t].resp.status = 400) =>
                    /\ DOC_STORE' = DOC_STORE
                    /\ InvalidInput(task'[t].req.file)]_vars

\* an upload with a .pdf name and blank text is rejected while the store
\* holds a document
C1_Witness ==
    \E t \in Tasks :
        /\ task[t].pc = "done"
        /\ task[t].req.kind = "upload"
        /\ task[t].resp.status = 400
        /\ EndsWith(Lower(task[t].req.file.filename), <<".","p","d","f">>)
        /\ DOMAIN DOC_STORE # {}

\* C2: a POST /ask, /summary or /search whose doc_id no successful upload
\* has returned is answered 404 in the step that accepts it, so that no
\* embedding or generation call is made for it, and the step changes
\* neither the document store nor the response cache.
C2_UnknownDocNotFound ==
    [][\A t \in Tasks :
          (/\ task[t].pc = "idle"
           /\ Acts(t)
           /\ task'[t].req.kind \in {"ask", "summary", "search"}
           /\ task'[t].req.doc_id \notin hist.returned) =>
              /\ task'[t].pc = "done"
              /\ task'[t].resp.status = 404
              /\ task'[t].ecalls = 0
              /\ task'[t].gcalls = 0
              /\ DOC_STORE' = DOC_STORE
              /\ response_cache' = response_cache]_vars

\* an unknown doc_id is answered 404 while the store holds a document and
\* the cache an entry
C2_Witness ==
    \E t \in Tasks :
        /\ task[t].pc = "done"
        /\ task[t].req.kind \in {"ask", "summary", "search"}
        /\ task[t].resp.status = 404
        /\ task[t].req.doc_id \notin hist.returned
        /\ DOMAIN DOC_STORE # {}
        /\ DOMAIN response_cache # {}

\* C3: every record of the document store has at least one chunk and as
\* many embedding vectors as chunks, whether the embedding calls succeeded
\* or failed.
C3_ChunksMatchEmbeddings ==
    \A d \in DOMAIN DOC_STORE :
        /\ Len(DOC_STORE[d].chunks) > 0
        /\ Len(DOC_STORE[d].embeddings) = Len(DOC_STORE[d].chunks)

\* a stored document of two chunks, the first embedding call having failed
\* and the second succeeded
C3_Witness ==
    \E d \in DOMAIN DOC_STORE :
        /\ Len(DOC_STORE[d].chunks) = 2
        /\ DOC_STORE[d].embeddings[1] = ZeroVector
        /\ DOC_STORE[d].embeddings[2] # ZeroVector

\* the step completes a successful upload by task t
UploadSucceeds(t) ==
    /\ Acts(t)
    /\ task'[t].pc = "done"
    /\ task'[t].req.kind = "upload"
    /\ task'[t].resp.status = 200

\* C4: no step changes or removes a stored record; a step that completes a
\* successful upload adds exactly one record, under the returned doc_id, which
\* was not in the store, holding the chunks and embeddings of that upload;
\* no other step adds a record.
C4_RecordsImmutable ==
    [][/\ \A d \in DOMAIN DOC_STORE :
             d \in DOMAIN DOC_STORE' /\ DOC_STORE'[d] = DOC_STORE[d]
       /\ \A t \in Tasks :
             UploadSucceeds(t) =>
                 /\ task'[t].resp.doc_id \notin DOMAIN DOC_STORE
                 /\ DOMAIN DOC_STORE' = DOMAIN DOC_STORE \cup {task'[t].resp.doc_id}
                 /\ DOC_STORE'[task'[t].resp.doc_id] =
                        [chunks |-> task[t].chunks, embeddings |-> task[t].embeddings]
       /\ (\A t \in Tasks : ~UploadSucceeds(t)) =>
             DOMAIN DOC_STORE' = DOMAIN DOC_STORE]_vars

\* the same PDF uploaded twice: two records with the same chunks
C4_Witness ==
    \E d1, d2 \in DOMAIN DOC_STORE :
        /\ d1 # d2
        /\ DOC_STORE[d1].chunks = DOC_STORE[d2].chunks

\* the error text marks a rate limit: it contains "429", "quota" or
\* "rate limit", whatever the case
RateLimited(error_msg) ==
    \/ Contains(Lower(error_msg), <<"4","2","9">>)
    \/ Contains(Lower(error_msg), <<"q","u","o","t","a">>)
    \/ Contains(Lower(error_msg), <<"r","a","t","e"," ","l","i","m","i","t">>)

\* C5: when the provider call of generate has failed with an error that is
\* not a rate limit, or with a rate limit on the last of its 4 attempts,
\* generate returns "Error: <message>" and the response cache holds that
\* string under the prompt's key; every call of generate returns a string
\* to its caller, none ends in a fault.
C5_GenerateReturnsError ==
    [][\A t \in Tasks :
          /\ (/\ task[t].pc = "g_failed"
              /\ Acts(t)
              /\ ~RateLimited(task[t].last.msg) \/ task[t].gcalls = 4) =>
                 /\ task'[t].pc = "g_got"
                 /\ task'[t].result = <<"Error: ">> \o task[t].last.msg
                 /\ task[t].cache_key \in DOMAIN response_cache'
                 /\ response_cache'[task[t].cache_key] = task'[t].result
          /\ (Acts(t) /\ task'[t].pc = "done" /\ task'[t].req.kind = "generate") =>
                 /\ task[t].pc = "g_got"
                 /\ task'[t].resp.status = 200
                 /\ task'[t].resp.text = task[t].result]_vars

\* generate has returned the error of a provider call that failed at once
C5_Witness ==
    \E t \in Tasks :
        /\ task[t].pc = "g_got"
        /\ task[t].req.kind = "generate"
        /\ task[t].gcalls = 1
        /\ task[t].result = <<"Error: ">> \o MsgOther
        /\ response_cache[task[t].cache_key] = task[t].result

\* the step enters generate for task t
EntersGenerate(t) ==
    /\ task[t].pc \in {"idle", "embedded"}
    /\ task'[t].pc \in {"g_call", "g_got"}

\* the prompts' key of a /summary of document d
SummaryKey(d) ==
    CacheKey(SummarySystemPrompt, SummaryUserPrompt(SummaryContext(DOC_STORE[d].chunks)))

\* C6: a call of generate whose cache key is in the response cache returns
\* the cached value in the step that enters it, without a provider call and
\* without changing the cache; whenever generate has returned, the cache
\* holds the returned value (an "Error: ..." string included) under the
\* key, and the handler answers with it; so a /summary that starts while
\* the cache still holds what the previous /summary of the same document
\* returned gets the same text and makes no generation call.
C6_CacheHit ==
    [][\A t \in Tasks :
          /\ (EntersGenerate(t) /\ task'[t].cache_key \in DOMAIN response_cache) =>
                 /\ task'[t].pc = "g_got"
                 /\ task'[t].result = response_cache[task'[t].cache_key]
                 /\ task'[t].gcalls = 0
                 /\ response_cache' = response_cache
          /\ (Acts(t) /\ task'[t].pc = "g_got") =>
                 /\ task'[t].cache_key \in DOMAIN response_cache'
                 /\ response_cache'[task'[t].cache_key] = task'[t].result
          /\ (Acts(t) /\ task[t].pc = "g_got") =>
                 /\ task'[t].pc = "done"
                 /\ task'[t].resp.status = 200
                 /\ task'[t].resp.text = Strip(task[t].result)
                 /\ response_cache' = response_cache
          /\ (/\ task[t].pc = "idle"
              /\ Acts(t)
              /\ task'[t].req.kind = "summary"
              /\ task'[t].req.doc_id \in DOMAIN hist.last_summary
              /\ SummaryKey(task'[t].req.doc_id) \in DOMAIN response_cache
              /\ response_cache[SummaryKey(task'[t].req.doc_id)]
                     = hist.last_summary[task'[t].req.doc_id]) =>
                 /\ task'[t].pc = "g_got"
                 /\ task'[t].gcalls = 0
                 /\ task'[t].result = hist.last_summary[task'[t].req.doc_id]]_vars

\* a second /summary of a document is answered from the cache with the
\* "Error: ..." string the first one returned
C6_Witness ==
    \E t \in Tasks :
        /\ task[t].pc = "g_got"
        /\ task[t].req.kind = "summary"
        /\ task[t].gcalls = 0
        /\ task[t].req.doc_id \in DOMAIN hist.last_summary
        /\ task[t].result = hist.last_summary[task[t].req.doc_id]
        /\ task[t].result = <<"Error: ">> \o MsgOther

\* the sleeps so far are the first of `delays`, in order
SleepsFollow(sleeps, delays) ==
    /\ Len(sleeps) <= Len(delays)
    /\ sleeps = SubSeq(delays, 1, Len(sleeps))

\* C7: one uncached call of generate invokes the provider at most 4 times;
\* it sleeps and calls again exactly when a call failed with a rate limit
\* and fewer than 4 calls were made, the sleeps being 2, 4 and 8 seconds in
\* that order; after any other failure, and after a rate limit on the 4th
\* call, it neither sleeps nor calls the provider again.
C7_GenerateRetries ==
    [][\A t \in Tasks :
          /\ task'[t].gcalls <= 4
          /\ SleepsFollow(task'[t].sleeps, <<2, 4, 8>>)
          /\ (task[t].pc = "g_failed" /\ Acts(t)) =>
                 IF RateLimited(task[t].last.msg) /\ task[t].gcalls < 4
                 THEN /\ task'[t].pc = "g_sleep"
                      /\ Len(task'[t].sleeps) = task[t].gcalls
                      /\ task'[t].gcalls = task[t].gcalls
                 ELSE /\ task'[t].pc = "g_got"
                      /\ task'[t].sleeps = task[t].sleeps
                      /\ task'[t].gcalls = task[t].gcalls
          /\ (Acts(t) /\ task'[t].gcalls = task[t].gcalls + 1) =>
                 \/ task[t].pc = "g_call" /\ task[t].gcalls = 0
                 \/ task[t].pc = "g_sleep" /\ Len(task[t].sleeps) = task[t].gcalls
          /\ (Acts(t) /\ task[t].pc = "g_got") => task'[t].pc = "done"]_vars

\* the 4th call of one generate has failed with a rate limit, after sleeps
\* of 2, 4 and 8 seconds
C7_Witness ==
    \E t \in Tasks :
        /\ task[t].pc = "g_failed"
        /\ task[t].gcalls = 4
        /\ task[t].sleeps = <<2, 4, 8>>
        /\ RateLimited(task[t].last.msg)

\* C8 as stated: embed calls the provider once per text, and never sleeps.
C8_NoEmbedRetry ==
    \A t \in Tasks :
        /\ task[t].ecalls <= 1
        /\ task[t].sleeps = <<>>
        /\ task[t].pc # "embed_sleep"

\* C8: embed wraps each text's provider call in the retry policy with its
\* defaults: at most 3 calls per text; it sleeps and calls again exactly
\* when a call failed with a rate limit and fewer than 3 calls were made
\* for the text, the sleeps being 1 and 2 seconds in that order; after any
\* other failure, and after a rate limit on the 3rd call, it appends the
\* zero vector at once, without sleeping or calling again for that text.
C8_EmbedRetries ==
    [][\A t \in Tasks :
          /\ task'[t].ecalls <= 3
          /\ SleepsFollow(task'[t].sleeps, <<1, 2>>)
          /\ (task[t].pc = "embed_failed" /\ Acts(t)) =>
                 IF RateLimited(task[t].last.msg) /\ task[t].ecalls < 3
                 THEN /\ task'[t].pc = "embed_sleep"
                      /\ Len(task'[t].sleeps) = task[t].ecalls
                      /\ task'[t].idx = task[t].idx
                      /\ task'[t].embeddings = task[t].embeddings
                 ELSE /\ task'[t].pc \in {"embed", "embedded"}
                      /\ task'[t].idx = task[t].idx + 1
                      /\ task'[t].embeddings = Append(task[t].embeddings, Vector(0, 0))
          /\ (Acts(t) /\ task[t].pc = "embed_sleep") =>
                 task'[t].ecalls = task[t].ecalls + 1]_vars

\* the 3rd call for one text has failed with a rate limit, after sleeps of
\* 1 and 2 seconds
C8_Witness ==
    \E t \in Tasks :
        /\ task[t].pc = "embed_failed"
        /\ task[t].ecalls = 3
        /\ task[t].sleeps = <<1, 2>>
        /\ RateLimited(task[t].last.msg)

\* the zero vector of length 768
IsZero768(v) == v.len = 768 /\ v.head = <<0, 0>>

\* the positions of task t inside embed
EmbedPcs == {"embed", "embed_failed", "embed_sleep"}

\* C9: embed fills its list in input order, one vector per text: when the
\* provider call for text i succeeded the vector is appended at position i,
\* when embed gave the text up the zero vector of length 768 is appended
\* at position i, and embed returns as many vectors as texts; no upload
\* of a readable PDF with text and no /ask about a stored document ends in
\* a fault: an /ask whose document and question have only zero vectors
\* goes on to the generation and is answered with status 200.
C9_EmbedFailuresDegrade ==
    [][\A t \in Tasks :
          /\ (Acts(t) /\ task[t].pc \in EmbedPcs) =>
                 /\ task'[t].pc \in EmbedPcs \cup {"embedded"}
                 /\ task'[t].texts = task[t].texts
                 /\ task'[t].idx = task[t].idx =>
                        /\ task'[t].pc \in EmbedPcs
                        /\ task'[t].embeddings = task[t].embeddings
                 /\ task'[t].idx # task[t].idx =>
                        /\ task'[t].idx = task[t].idx + 1
                        /\ Len(task'[t].embeddings) = task[t].idx
                        /\ SubSeq(task'[t].embeddings, 1, task[t].idx - 1)
                               = task[t].embeddings
                        /\ IF task[t].pc = "embed_failed"
                           THEN IsZero768(task'[t].embeddings[task[t].idx])
                           ELSE ~IsZero768(task'[t].embeddings[task[t].idx])
                 /\ task'[t].pc = "embedded" <=> task'[t].idx = Len(task[t].texts) + 1
          /\ (Acts(t) /\ task'[t].pc = "embedded") =>
                 Len(task'[t].embeddings) = Len(task'[t].texts)
          /\ (/\ Acts(t)
              /\ task[t].pc = "embedded"
              /\ task[t].req.kind = "ask") =>
                 task'[t].pc \in {"g_call", "g_got"}
          /\ (/\ Acts(t)
              /\ task'[t].pc = "done"
              /\ \/ /\ task'[t].req.kind = "ask"
                    /\ task'[t].req.doc_id \in hist.returned
                 \/ /\ task'[t].req.kind = "upload"
                    /\ task'[t].req.file.readable
                    /\ ~InvalidInput(task'[t].req.file)) =>
                 task'[t].resp.status = 200]_vars

\* generate has returned to an /ask about a document of two chunks, the
\* embedding calls of both chunks and of the question having failed
C9_Witness ==
    \E t \in Tasks :
        /\ task[t].pc = "g_got"
        /\ task[t].req.kind = "ask"
        /\ Len(task[t].emb_array) = 2
        /\ \A i \in 1..2 : IsZero768(task[t].emb_array[i])
        /\ IsZero768(task[t].embeddings[1])
        /\ task[t].emb_array = DOC_STORE[task[t].req.doc_id].embeddings

\* the words of all chunks, in order
RECURSIVE WordsOfRange(_, _, _)
WordsOfRange(chunks, lo, hi) ==
    IF lo > hi THEN <<>>
    ELSE IF lo = hi THEN Split(chunks[lo])
    ELSE LET mid == (lo + hi) \div 2
         IN  WordsOfRange(chunks, lo, mid) \o WordsOfRange(chunks, mid + 1, hi)

WordsOf(chunks) == WordsOfRange(chunks, 1, Len(chunks))

\* every chunk but the last has n words, the last has between 1 and n
ChunkSizes(chunks, n) ==
    /\ \A i \in 1..(Len(chunks) - 1) : Len(Split(chunks[i])) = n
    /\ chunks # <<>> =>
          /\ Len(Split(chunks[Len(chunks)])) >= 1
          /\ Len(Split(chunks[Len(chunks)])) <= n

\* C10 as stated: for any text and any N, every chunk of chunk_text(text, N)
\* but the last has exactly N words, the words of the chunks in order are
\* the words of the text, empty text gives no chunk, and 850 words with
\* N = 400 give chunks of 400, 400 and 50 words.
C10_AnyLimit ==
    ct.pc = "returned" =>
        /\ \A i \in 1..(Len(ct.chunks) - 1) : Len(Split(ct.chunks[i])) = ct.max_tokens
        /\ WordsOf(ct.chunks) = Split(ct.text)
        /\ ct.text = <<>> => ct.chunks = <<>>
        /\ (Len(Split(ct.text)) = 850 /\ ct.max_tokens = 400) =>
              /\ Len(ct.chunks) = 3
              /\ Len(Split(ct.chunks[1])) = 400
              /\ Len(Split(ct.chunks[2])) = 400
              /\ Len(Split(ct.chunks[3])) = 50

\* C10: for any text and any N >= 1, every chunk of chunk_text(text, N) but
\* the last has exactly N words and the last has 1 to N; for N <= 0 every
\* chunk has one word; for every N the words of the chunks in order are the
\* words of the text, a text without words (empty or all whitespace) gives
\* no chunk, and 850 words with N = 400 give chunks of 400, 400 and 50 words.
C10_ChunkText ==
    ct.pc = "returned" =>
        /\ ct.max_tokens >= 1 => ChunkSizes(ct.chunks, ct.max_tokens)
        /\ ct.max_tokens <= 0 => ChunkSizes(ct.chunks, 1)
        /\ WordsOf(ct.chunks) = Split(ct.text)
        /\ Split(ct.text) = <<>> <=> ct.chunks = <<>>
        /\ (Len(Split(ct.text)) = 850 /\ ct.max_tokens = 400) =>
              /\ Len(ct.chunks) = 3
              /\ Len(Split(ct.chunks[1])) = 400
              /\ Len(Split(ct.chunks[2])) = 400
              /\ Len(Split(ct.chunks[3])) = 50

\* chunk_text has returned the three chunks of an 850-word text
C10_Witness ==
    /\ ct.pc = "returned"
    /\ ct.max_tokens = 400
    /\ Len(Split(ct.text)) = 850
    /\ Len(ct.chunks) = 3

\* the similarity scores of the input of top_k_chunks, by chunk index
TopkSims == [i \in 1..Len(topk.doc_embs) |-> CosineSimilarity(topk.query_emb, topk.doc_embs[i])]

\* result is made of the chunks p[1], p[2], ... of the input, with their scores
PicksChunks(result, p) ==
    /\ \A i, j \in 1..Len(result) : i # j => p[i] # p[j]
    /\ \A i \in 1..Len(result) :
          /\ result[i].text = topk.chunks[p[i]]
          /\ ~ScoreLess(result[i].score, TopkSims[p[i]])
          /\ ~ScoreLess(TopkSims[p[i]], result[i].score)

\* min(k, n) pairs, scores non-increasing, no chunk left out scores higher
\* than a returned one
TopByScore(result, p) ==
    /\ Len(result) = Min2(topk.k, Len(topk.chunks))
    /\ \A i \in 1..(Len(result) - 1) : ~ScoreLess(result[i].score, result[i + 1].score)
    /\ \A i \in 1..Len(result) :
          \A c \in 1..Len(topk.chunks) :
              (\A j \in 1..Len(result) : p[j] # c) => ~ScoreLess(result[i].score, TopkSims[c])

\* C11 as stated: top_k_chunks returns min(k, n) pairs of distinct chunks
\* with their scores, by non-increasing score, equal scores by increasing
\* chunk index, and no chunk left out scores higher than a returned one.
C11_TiesByIndex ==
    topk.pc = "returned" =>
        \E p \in [1..Len(topk.result) -> 1..Len(topk.chunks)] :
            /\ PicksChunks(topk.result, p)
            /\ TopByScore(topk.result, p)
            /\ \A i \in 1..(Len(topk.result) - 1) :
                  ~ScoreLess(topk.result[i + 1].score, topk.result[i].score)
                      => p[i] < p[i + 1]

\* C11: for k >= 0, top_k_chunks returns min(k, n) pairs of distinct chunks
\* with their scores, by non-increasing score, and no chunk left out scores
\* higher than a returned one; k = 5 over 3 chunks returns all 3.  Chunks
\* of equal score come in any order.
C11_TopK ==
    topk.pc = "returned" =>
        /\ \E p \in [1..Len(topk.result) -> 1..Len(topk.chunks)] :
              /\ PicksChunks(topk.result, p)
              /\ TopByScore(topk.result, p)
        /\ (topk.k = 5 /\ Len(topk.chunks) = 3) => Len(topk.result) = 3

\* k = 5 over 3 chunks, two of them with the same score, has returned 3 pairs
C11_Witness ==
    /\ topk.pc = "returned"
    /\ topk.k = 5
    /\ Len(topk.chunks) = 3
    /\ Len(topk.result) = 3
    /\ \E i, j \in 1..3 : i # j /\ topk.doc_embs[i] = topk.doc_embs[j]

\* C12 as stated: when a POST /upload of the alternate service has
\* completed, with whatever status, the temporary file it made is not on
\* disk any more; with no request under way no temporary file is left.
C12_TempFileRemoved ==
    /\ \A t \in DOMAIN alt.tasks :
          alt.tasks[t].pc = "done" => alt.tasks[t].temp_file \notin alt.files
    /\ (\A t \in DOMAIN alt.tasks : alt.tasks[t].pc = "idle") => alt.files = {}

\* the offsets [lo, hi) of the text that the i-th chunk (from 0) should hold
ChunkLo(i) == 800 * i

ChunkHi(i, n) == Min2(800 * i + 1000, n)

\* chunks are the windows of at most 1000 characters at offsets 0, 800,
\* 1600, ... of text, and every character of text lies in one of them
WindowsOf(chunks, text) ==
    /\ \A i \in 0..(Len(chunks) - 1) :
          /\ Len(chunks[i + 1]) <= 1000
          /\ ChunkLo(i) < Len(text)
          /\ chunks[i + 1] = SubSeq(text, ChunkLo(i) + 1, ChunkHi(i, Len(text)))
    /\ \A c \in 1..Len(text) :
          \E i \in 0..(Len(chunks) - 1) : ChunkLo(i) < c /\ c <= ChunkHi(i, Len(text))
    /\ text = <<>> => chunks = <<>>

\* the number of characters that chunks i and i + 1 (from 0) share
Shared(i, n) == ChunkHi(i, n) - ChunkLo(i + 1)

\* C13 as stated: the chunks split_text returns are the windows of at most
\* 1000 characters at offsets 800*i that cover the text, the empty text
\* gives none, and every two consecutive chunks overlap by 200 characters.
C13_Overlap200 ==
    split.pc = "returned" =>
        /\ WindowsOf(split.chunks, split.text)
        /\ \A i \in 0..(Len(split.chunks) - 2) : Shared(i, Len(split.text)) = 200

\* C13: split_text with sizes 1000 and 200 returns, and the chunks it
\* returns are the windows of at most 1000 characters at offsets 800*i that
\* cover the text, the empty text gives none; two consecutive chunks
\* overlap by 200 characters, except that the last chunk, when the text
\* ends less than 200 characters after its offset, lies wholly inside the
\* chunk before it and shares all its 1 to 199 characters with it.
C13_SplitText ==
    /\ [](split.pc = "returned" =>
            /\ WindowsOf(split.chunks, split.text)
            /\ \A i \in 0..(Len(split.chunks) - 2) :
                  /\ Shared(i, Len(split.text)) = Min2(200, Len(split.chunks[i + 2]))
                  /\ Shared(i, Len(split.text)) >= 1
                  /\ Shared(i, Len(split.text)) < 200 => i = Len(split.chunks) - 2)
    /\ <>(split.pc = "returned")

\* a text of 1800 characters has been split into 3 chunks
C13_Witness ==
    /\ split.pc = "returned"
    /\ Len(split.text) = 1800
    /\ Len(split.chunks) = 3

(***************************************************************************)
(* C14: under any interleaving of concurrent generate calls, once the      *)
(* response cache holds a value for a prompt key that value is never       *)
(* overwritten: every step keeps each cached key and its value.            *)
(* SpecGenerate does not satisfy it: a call that missed the cache and      *)
(* slept in backoff stores its own result over the one another call for    *)
(* the same key stored meanwhile.                                          *)
(***************************************************************************)
C14_CachedValueKept ==
    [][\A cache_key \in DOMAIN response_cache :
           /\ cache_key \in DOMAIN response_cache'
           /\ response_cache'[cache_key] = response_cache[cache_key]]_vars

============================================================================
